---------------------------- MODULE Spec2Model ----------------------------
(***************************************************************************)
(* Real-time feed ingestion of cleanride (cleanride_next/src/lib/mtaApi.js *)
(* and the station route built on it).                                      *)
(*                                                                          *)
(* JavaScript values that may be absent or of the wrong type are tagged     *)
(* records: [t |-> "undefined"], [t |-> "array", v |-> <<...>>],            *)
(* [t |-> "string", v |-> ...], [t |-> "number", v |-> n].                  *)
(***************************************************************************)
EXTENDS Integers, Sequences, FiniteSets, TLC

VARIABLES
    routerIn,       \* getRelevantFeeds: the stationLines argument
    routerOut,      \* getRelevantFeeds: the returned array (NotCalled before the call)
    clock,          \* Date.now(), in milliseconds
    USE_MOCK_DATA,  \* the process-wide offline flag, read once at module load
    apiCache,       \* [data, timestamp], each keyed by feed id
    calls,          \* the fetchMtaFeed calls so far, in call order
    gta,            \* the getTrainArrivals call in progress (or the last one)
    route,          \* the station route (GET) from line 100 on: inputs and outputs
    cached,         \* mongodb.js: global.mongoose, [conn, promise]
    dbCalls         \* the connection attempts, the connectToDatabase calls so far
                    \* and the continuations waiting to run

routerVars == <<routerIn, routerOut>>
pureVars == <<routerIn, routerOut, route>>
fetchVars == <<apiCache, calls>>
dbVars == <<cached, dbCalls>>
vars == <<routerIn, routerOut, clock, USE_MOCK_DATA, apiCache, calls, gta, route,
          cached, dbCalls>>

-----------------------------------------------------------------------------
(* JavaScript values *)

Undefined == [t |-> "undefined"]
Arr(s) == [t |-> "array", v |-> s]
NotCalled == [t |-> "notcalled"]

\* the station route before its inputs are known
IdleRoute == [pc |-> "idle"]

\* mongodb.js lines 12-16: cached = global.mongoose = { conn: null, promise: null }
NoConnection == [conn |-> Undefined, promise |-> Undefined]

\* no connection attempt made, no connectToDatabase call, no continuation queued
NoDbCalls == [attempts |-> <<>>, callers |-> <<>>, jobs |-> <<>>]

SeqToSet(s) == {s[i] : i \in DOMAIN s}
NoDuplicates(s) == \A i, j \in DOMAIN s : s[i] = s[j] => i = j

-----------------------------------------------------------------------------
(* The feed registry *)

ObjectKeys == <<"IRT", "ACE", "NQRW", "BDFM", "L", "G", "JZ", "SIR">>

MTA_FEEDS ==
    [IRT  |-> [lines |-> <<"1", "2", "3", "4", "5", "6", "7", "S", "GS">>, url |-> "gtfs"],
     ACE  |-> [lines |-> <<"A", "C", "E", "H">>,        url |-> "gtfs-ace"],
     NQRW |-> [lines |-> <<"N", "Q", "R", "W">>,        url |-> "gtfs-nqrw"],
     BDFM |-> [lines |-> <<"B", "D", "F", "M", "FS">>,  url |-> "gtfs-bdfm"],
     L    |-> [lines |-> <<"L">>,                       url |-> "gtfs-l"],
     G    |-> [lines |-> <<"G">>,                       url |-> "gtfs-g"],
     JZ   |-> [lines |-> <<"J", "Z">>,                  url |-> "gtfs-jz"],
     SIR  |-> [lines |-> <<"SI", "SIR">>,               url |-> "gtfs-si"]]

FeedIds == SeqToSet(ObjectKeys)
RegistryLines == UNION {SeqToSet(MTA_FEEDS[f].lines) : f \in FeedIds}

\* feed.lines.includes(line)
Includes(arr, x) == \E i \in DOMAIN arr : arr[i] = x

-----------------------------------------------------------------------------
(* Feed Router *)

\* Set.prototype.add on a Set kept in insertion order
SetAdd(set, x) == IF Includes(set, x) THEN set ELSE Append(set, x)

\* the inner for..of over Object.entries(MTA_FEEDS), from entry k on
RECURSIVE AddFeedsOfLine(_, _, _)
AddFeedsOfLine(feedIds, line, k) ==
    IF k > Len(ObjectKeys) THEN feedIds
    ELSE AddFeedsOfLine(
             IF Includes(MTA_FEEDS[ObjectKeys[k]].lines, line)
                 THEN SetAdd(feedIds, ObjectKeys[k])
                 ELSE feedIds,
             line, k + 1)

\* stationLines.forEach(...), from element i on
RECURSIVE CollectFeeds(_, _, _)
CollectFeeds(feedIds, lines, i) ==
    IF i > Len(lines) THEN feedIds
    ELSE CollectFeeds(AddFeedsOfLine(feedIds, lines[i], 1), lines, i + 1)

\* a plausible slip: an array push instead of a Set, so a feed serving two
\* of the station's lines is returned twice
RECURSIVE PushFeedsOfLine(_, _, _)
PushFeedsOfLine(feedIds, line, k) ==
    IF k > Len(ObjectKeys) THEN feedIds
    ELSE PushFeedsOfLine(
             IF Includes(MTA_FEEDS[ObjectKeys[k]].lines, line)
                 THEN Append(feedIds, ObjectKeys[k])
                 ELSE feedIds,
             line, k + 1)

RECURSIVE CollectFeedsPush(_, _, _)
CollectFeedsPush(feedIds, lines, i) ==
    IF i > Len(lines) THEN feedIds
    ELSE CollectFeedsPush(PushFeedsOfLine(feedIds, lines[i], 1), lines, i + 1)

getRelevantFeeds_Push(stationLines) ==
    IF stationLines = Undefined \/ Len(stationLines.v) = 0
        THEN ObjectKeys
        ELSE LET feedIds == CollectFeedsPush(<<>>, stationLines.v, 1)
             IN  IF Len(feedIds) > 0 THEN feedIds ELSE ObjectKeys

\* a plausible slip: no fail-open when no feed serves the lines
getRelevantFeeds_FailClosed(stationLines) ==
    IF stationLines = Undefined \/ Len(stationLines.v) = 0
        THEN ObjectKeys
        ELSE CollectFeeds(<<>>, stationLines.v, 1)

getRelevantFeeds(stationLines) ==
    IF stationLines = Undefined \/ Len(stationLines.v) = 0
        THEN ObjectKeys
        ELSE LET feedIds == CollectFeeds(<<>>, stationLines.v, 1)
             IN  IF Len(feedIds) > 0 THEN feedIds ELSE ObjectKeys

-----------------------------------------------------------------------------
(* Lookup tables *)

DefaultColor == "#808183"

lineColors ==
    ("1" :> "#EE352E") @@ ("2" :> "#EE352E") @@ ("3" :> "#EE352E") @@
    ("4" :> "#00933C") @@ ("5" :> "#00933C") @@ ("6" :> "#00933C") @@
    ("7" :> "#B933AD") @@
    ("A" :> "#2850AD") @@ ("C" :> "#2850AD") @@ ("E" :> "#2850AD") @@ ("H" :> "#2850AD") @@
    ("B" :> "#FF6319") @@ ("D" :> "#FF6319") @@ ("F" :> "#FF6319") @@ ("M" :> "#FF6319") @@
    ("G" :> "#6CBE45") @@
    ("J" :> "#996633") @@ ("Z" :> "#996633") @@
    ("L" :> "#A7A9AC") @@
    ("N" :> "#FCCC0A") @@ ("Q" :> "#FCCC0A") @@ ("R" :> "#FCCC0A") @@ ("W" :> "#FCCC0A") @@
    ("S" :> "#808183") @@ ("GS" :> "#808183") @@
    ("SI" :> "#2850AD")

\* lineColors[routeId] || '#808183'
ColorOf(routeId) ==
    IF routeId \in DOMAIN lineColors THEN lineColors[routeId] ELSE DefaultColor

destinations ==
    ("TSQ" :> "Times Square") @@ ("GCT" :> "Grand Central") @@ ("14S" :> "14 St") @@
    ("34S" :> "34 St") @@ ("SFC" :> "South Ferry") @@ ("WTC" :> "World Trade Center") @@
    ("ATL" :> "Atlantic Av") @@ ("CIY" :> "Coney Island") @@ ("BBR" :> "Brighton Beach") @@
    ("FHL" :> "Flatbush Av") @@ ("UST" :> "Utica Av") @@ ("NLT" :> "New Lots Av") @@
    ("ENY" :> "East New York") @@
    ("WPK" :> "Wakefield") @@ ("WOD" :> "Woodlawn") @@ ("PBP" :> "Pelham Bay Park") @@
    ("ECD" :> "Eastchester") @@
    ("FLS" :> "Flushing") @@ ("JAM" :> "Jamaica Center") @@ ("179" :> "179 St Jamaica") @@
    ("Van Cortlandt Park" :> "Van Cortlandt Park") @@ ("South Ferry" :> "South Ferry") @@
    ("Wakefield" :> "Wakefield") @@ ("Flatbush Av" :> "Flatbush Av") @@
    ("Harlem" :> "Harlem") @@ ("New Lots Av" :> "New Lots Av")

\* destinations[destination] || destinations['DEFAULT'], DEFAULT being the argument
getDestinationName(destination) ==
    IF destination \in DOMAIN destinations THEN destinations[destination] ELSE destination

randomDestinations ==
    ("1" :> <<"Van Cortlandt Park", "South Ferry">>) @@
    ("2" :> <<"Wakefield", "Flatbush Av">>) @@
    ("3" :> <<"Harlem", "New Lots Av">>) @@
    ("4" :> <<"WOD", "UST", "NLT">>) @@
    ("5" :> <<"ECD", "FHL">>) @@
    ("6" :> <<"PBP", "BBR">>) @@
    ("7" :> <<"FLS", "34S">>) @@
    ("A" :> <<"207", "FAR", "RPK">>) @@
    ("C" :> <<"168", "EUC">>) @@
    ("E" :> <<"JAM", "WTC">>) @@
    ("B" :> <<"BPK", "BBR">>) @@
    ("D" :> <<"NWD", "CIY">>) @@
    ("F" :> <<"179", "CIY">>) @@
    ("M" :> <<"71A", "MET">>) @@
    ("G" :> <<"CTQ", "CHA">>) @@
    ("J" :> <<"JAM", "BRS">>) @@
    ("Z" :> <<"JAM", "BRS">>) @@
    ("L" :> <<"CAN", "8AV">>) @@
    ("N" :> <<"AST", "CIY">>) @@
    ("Q" :> <<"96S", "CIY">>) @@
    ("R" :> <<"71A", "BAY">>) @@
    ("W" :> <<"AST", "WHS">>) @@
    ("S" :> <<"TSQ", "GCT">>) @@
    ("SI" :> <<"STG", "TOT">>)

-----------------------------------------------------------------------------
(* Values of a decoded feed                                                *)
(* A stop id or station id is its sequence of characters.  A trip id is    *)
(* held as its pieces between ".." separators and a train id as its pieces *)
(* between "/" separators, which is all the code reads of them.            *)

Num(n) == [t |-> "number", v |-> n]
Str(parts) == [t |-> "string", parts |-> parts]
Long(low) == [t |-> "Long", low |-> low, high |-> 0]
Obj(fields) == [t |-> "object"] @@ fields

\* Date.now() / 1000: seconds, held exactly as a count of milliseconds
SecondsOfMs(ms) == [t |-> "number", milli |-> ms]

\* new Date(seconds * 1000).toISOString(): the instant, written to the millisecond
toISOString(ms) == [iso |-> ms]
\* new Date(isoString), as milliseconds
DateParse(s) == s.iso

\* what completes a function: a returned value or a thrown error
Return(v) == [kind |-> "return", value |-> v]
Throw(e) == [kind |-> "throw", error |-> e]

\* { header: { timestamp: now / 1000 }, entity: [] }
EmptyFeed(nowMs) == [header |-> [timestamp |-> SecondsOfMs(nowMs)], entity |-> <<>>]

-----------------------------------------------------------------------------
(* Feed Decoder *)

\* FeedMessage.decode: a byte sequence is modelled by what decoding does with it
FeedMessageDecode(buffer) ==
    IF buffer.malformed THEN Throw("decode") ELSE Return(buffer.message)

\* a plausible slip: no try/catch around the decode
parseGtfsRealtimeFeed_NoCatch(buffer, nowMs) ==
    FeedMessageDecode(buffer)

parseGtfsRealtimeFeed(buffer, nowMs) ==
    LET decoded == FeedMessageDecode(buffer)
    IN  IF decoded.kind = "throw" THEN Return(EmptyFeed(nowMs)) ELSE decoded

-----------------------------------------------------------------------------
(* Arrival Extractor: the loop of getTrainArrivals over the joined feeds *)

formatStopId(stationId, direction) ==
    stationId \o (IF direction = "NORTH" THEN <<"N">> ELSE <<"S">>)

\* a plausible slip: startsWith in place of endsWith
EndsWith_StartsWith(str, ch) == Len(str) > 0 /\ str[1] = ch

\* String.prototype.endsWith for a one-character suffix
EndsWith(str, ch) == Len(str) > 0 /\ str[Len(str)] = ch

\* the try block of getNyctTripDescriptor; null is held as Undefined
getNyctTripDescriptor(trip) ==
    IF trip # Undefined /\ trip.extensions # Undefined
       /\ trip.extensions.nyct_trip_descriptor # Undefined
        THEN trip.extensions.nyct_trip_descriptor
        ELSE Undefined

\* JavaScript truthiness of the values a feed field can hold
Truthy(x) ==
    CASE x.t = "undefined" -> FALSE
      [] x.t = "number"    -> x.v # 0
      [] x.t = "string"    -> IF "parts" \in DOMAIN x THEN x.parts # <<"">>
                              ELSE TRUE
      [] OTHER             -> TRUE

\* the number a value compares and multiplies as (a Long goes through its
\* toString; the feeds of the model hold Longs below 2^31, whose high word is 0)
ToNumber(x) == IF x.t = "Long" THEN x.low ELSE x.v

\* update.arrival?.time?.low || update.arrival?.time
ArrivalTimeOf(update) ==
    IF update.arrival = Undefined THEN Undefined
    ELSE LET time == update.arrival.time
         IN  IF time.t = "Long" /\ time.low # 0 THEN Num(time.low) ELSE time

\* update.arrival?.delay || 0
DelayOf(update) ==
    IF update.arrival = Undefined THEN 0
    ELSE IF Truthy(update.arrival.delay) THEN update.arrival.delay.v ELSE 0

\* the destination code read from trip_id or from the vendor train id; a
\* truthy value that is no string has no includes()/split(): a TypeError
DestinationCode(trip, nyctTrip) ==
    IF Truthy(trip.trip_id)
    THEN IF trip.trip_id.t # "string" THEN Throw("TypeError")
         ELSE IF Len(trip.trip_id.parts) > 1
              THEN Return(IF trip.trip_id.parts[2] # "" THEN trip.trip_id.parts[2]
                          ELSE "Unknown")
              ELSE IF nyctTrip # Undefined /\ Truthy(nyctTrip.train_id)
                   THEN IF nyctTrip.train_id.t # "string" THEN Throw("TypeError")
                        ELSE Return(IF Len(nyctTrip.train_id.parts) > 1
                                    THEN nyctTrip.train_id.parts[2] ELSE "Unknown")
                   ELSE Return("Unknown")
    ELSE IF nyctTrip # Undefined /\ Truthy(nyctTrip.train_id)
         THEN IF nyctTrip.train_id.t # "string" THEN Throw("TypeError")
              ELSE Return(IF Len(nyctTrip.train_id.parts) > 1
                          THEN nyctTrip.train_id.parts[2] ELSE "Unknown")
         ELSE Return("Unknown")

\* the object pushed for one qualifying stop-time update
RealArrival(trip, nyctTrip, update, arrivalTime, destination) ==
    [id          |-> trip.trip_id,
     line        |-> trip.route_id,
     direction   |-> IF EndsWith(update.stop_id, "N") THEN "NORTH" ELSE "SOUTH",
     destination |-> getDestinationName(destination),
     arrivalTime |-> toISOString(ToNumber(arrivalTime) * 1000),
     delay       |-> DelayOf(update),
     isRealtime  |-> TRUE,
     isAssigned  |-> IF nyctTrip # Undefined /\ nyctTrip.is_assigned = TRUE
                         THEN TRUE ELSE FALSE,
     color       |-> ColorOf(trip.route_id),
     trainId     |-> IF nyctTrip # Undefined /\ Truthy(nyctTrip.train_id)
                         THEN nyctTrip.train_id ELSE trip.trip_id]

\* a plausible slip: >= lets an arrival at the very second of extraction through
IsFuture_Inclusive(arrivalTime, now) == Truthy(arrivalTime) /\ ToNumber(arrivalTime) >= now

\* Skip past arrivals: arrivalTime && arrivalTime > now
IsFuture(arrivalTime, now) == Truthy(arrivalTime) /\ ToNumber(arrivalTime) > now

\* one pass of the body of the loop over stop_time_update; acc is Return(arrivals)
ProcessUpdate(acc, trip, nyctTrip, update, stationId, now) ==
    IF update.stop_id = formatStopId(stationId, "NORTH")
       \/ update.stop_id = formatStopId(stationId, "SOUTH")
    THEN LET arrivalTime == ArrivalTimeOf(update)
         IN  IF IsFuture(arrivalTime, now)
             THEN LET destination == DestinationCode(trip, nyctTrip)
                  IN  IF destination.kind = "throw" THEN destination
                      ELSE Return(Append(acc.value,
                               RealArrival(trip, nyctTrip, update, arrivalTime,
                                           destination.value)))
             ELSE acc
    ELSE acc

RECURSIVE ProcessUpdates(_, _, _, _, _, _, _)
ProcessUpdates(acc, trip, nyctTrip, updates, k, stationId, now) ==
    IF acc.kind = "throw" \/ k > Len(updates) THEN acc
    ELSE ProcessUpdates(ProcessUpdate(acc, trip, nyctTrip, updates[k], stationId, now),
                        trip, nyctTrip, updates, k + 1, stationId, now)

\* the body of the loop over feed.entity
ProcessEntity(acc, entity, stationId, now) ==
    IF entity.trip_update # Undefined /\ entity.trip_update.stop_time_update # Undefined
    THEN LET tripUpdate == entity.trip_update
             trip == tripUpdate.trip
         IN  IF trip = Undefined THEN acc
             ELSE IF tripUpdate.stop_time_update.t # "array" THEN Throw("TypeError")
             ELSE ProcessUpdates(acc, trip, getNyctTripDescriptor(trip),
                                 tripUpdate.stop_time_update.v, 1, stationId, now)
    ELSE acc

RECURSIVE ProcessEntities(_, _, _, _, _)
ProcessEntities(acc, entities, j, stationId, now) ==
    IF acc.kind = "throw" \/ j > Len(entities) THEN acc
    ELSE ProcessEntities(ProcessEntity(acc, entities[j], stationId, now),
                         entities, j + 1, stationId, now)

\* for (const feed of feeds) ...: Return(arrivals) or the error thrown on the way
RECURSIVE ProcessFeeds(_, _, _, _, _)
ProcessFeeds(acc, feeds, i, stationId, now) ==
    IF acc.kind = "throw" \/ i > Len(feeds) THEN acc
    ELSE ProcessFeeds(ProcessEntities(acc, feeds[i].entity, 1, stationId, now),
                      feeds, i + 1, stationId, now)

-----------------------------------------------------------------------------
(* arrivals.sort((a, b) => new Date(a.arrivalTime) - new Date(b.arrivalTime)) *)

\* insert x after every element that does not compare greater (a stable sort)
RECURSIVE InsertByTime(_, _)
InsertByTime(sorted, x) ==
    IF sorted = <<>> THEN <<x>>
    ELSE IF DateParse(sorted[Len(sorted)].arrivalTime) - DateParse(x.arrivalTime) > 0
         THEN Append(InsertByTime(SubSeq(sorted, 1, Len(sorted) - 1), x), sorted[Len(sorted)])
         ELSE Append(sorted, x)

RECURSIVE SortFrom(_, _, _)
SortFrom(sorted, arrivals, k) ==
    IF k > Len(arrivals) THEN sorted
    ELSE SortFrom(InsertByTime(sorted, arrivals[k]), arrivals, k + 1)

\* a plausible slip: the sort left out
SortByArrivalTime_Missing(arrivals) == arrivals

SortByArrivalTime(arrivals) == SortFrom(<<>>, arrivals, 1)

-----------------------------------------------------------------------------
(* Synthetic Arrival Generator                                             *)
(* Math.random() is a pseudo-random stream: draw k of the stream of a seed *)
(* is Rand(seed, k) / RandDenom, a number in [0, 1).                       *)

RandDenom == 30
RandStride == 7
SeedStride == 8

Rand(seed, k) == (seed * SeedStride + k * RandStride) % RandDenom

\* Math.floor(Math.random() * n)
FloorRand(r, n) == (r * n) \div RandDenom

\* getRandomDestination(line), r being its one draw
getRandomDestination(line, r) ==
    LET lineDestinations == IF line \in DOMAIN randomDestinations
                                THEN randomDestinations[line] ELSE <<"UNK">>
    IN  lineDestinations[FloorRand(r, Len(lineDestinations)) + 1]

\* one pass of the inner for loop, taking draws k, k+1, ... of the stream:
\* minutes, the delay test, the delay amount if any, trip id, destination,
\* assignment, train id.  Returns the arrival and the next draw.
MockArrival(line, nowMs, seed, k) ==
    LET minutesFromNow == FloorRand(Rand(seed, k), 30) + 2
        delayed        == Rand(seed, k + 1) * 10 < 3 * RandDenom
        delayMinutes   == IF delayed THEN FloorRand(Rand(seed, k + 2), 5) + 1 ELSE 0
        k2             == IF delayed THEN k + 3 ELSE k + 2
    IN  [arrival |->
            [id          |-> [t |-> "string", line |-> line,
                              n |-> FloorRand(Rand(seed, k2), 100000)],
             line        |-> line,
             destination |-> getDestinationName(
                                 getRandomDestination(line, Rand(seed, k2 + 1))),
             arrivalTime |-> toISOString(nowMs + minutesFromNow * 60 * 1000),
             delay       |-> delayMinutes * 60,
             isRealtime  |-> TRUE,
             isAssigned  |-> Rand(seed, k2 + 2) * 10 > 2 * RandDenom,
             color       |-> ColorOf(line),
             trainId     |-> [t |-> "string", line |-> line,
                              n |-> FloorRand(Rand(seed, k2 + 3), 10000)]],
         next |-> k2 + 4]

\* for (let i = 0; i < numArrivals; i++) ...: state is [arrivals, next]
RECURSIVE MockLine(_, _, _, _, _, _)
MockLine(st, line, i, numArrivals, nowMs, seed) ==
    IF i >= numArrivals THEN st
    ELSE LET m == MockArrival(line, nowMs, seed, st.next)
         IN  MockLine([arrivals |-> Append(st.arrivals, m.arrival), next |-> m.next],
                      line, i + 1, numArrivals, nowMs, seed)

\* lines.forEach(line => ...)
RECURSIVE MockLines(_, _, _, _, _)
MockLines(st, lines, j, nowMs, seed) ==
    IF j > Len(lines) THEN st
    ELSE LET numArrivals == FloorRand(Rand(seed, st.next), 4) + 2
         IN  MockLines(MockLine([arrivals |-> st.arrivals, next |-> st.next + 1],
                                lines[j], 0, numArrivals, nowMs, seed),
                       lines, j + 1, nowMs, seed)

\* a plausible slip: the arrival times are counted from now, not from now + 2 min
generateMockArrivals_FromNow(station, nowMs, seed) ==
    LET lines == IF station.lines = Undefined THEN <<>> ELSE station.lines.v
    IN  IF Len(lines) = 0 THEN <<>>
        ELSE SortByArrivalTime(
                 MockLines([arrivals |-> <<>>, next |-> 0], lines, 1,
                           nowMs - 2 * 60 * 1000, seed).arrivals)

generateMockArrivals(station, nowMs, seed) ==
    LET lines == IF station.lines = Undefined THEN <<>> ELSE station.lines.v
    IN  IF Len(lines) = 0 THEN <<>>
        ELSE SortByArrivalTime(
                 MockLines([arrivals |-> <<>>, next |-> 0], lines, 1, nowMs, seed).arrivals)

-----------------------------------------------------------------------------
(* Feed Fetcher: fetchMtaFeed and the process-wide apiCache *)

CacheTtlMs == 30000

EmptyCache == [data |-> [f \in FeedIds |-> Undefined], timestamp |-> [f \in FeedIds |-> Undefined]]

\* apiCache.data[feedId] && now - apiCache.timestamp[feedId] < 30000
CacheFresh(cache, feedId, now) ==
    /\ cache.data[feedId] # Undefined
    /\ now - cache.timestamp[feedId].v < CacheTtlMs

\* a plausible slip: the timestamp of an entry is only ever moved forward,
\* while the data is replaced
CacheWrite_NewestStamp(cache, feedId, feed, now) ==
    [data |-> [cache.data EXCEPT ![feedId] = feed],
     timestamp |-> [cache.timestamp EXCEPT
                       ![feedId] = IF cache.timestamp[feedId] # Undefined
                                      /\ cache.timestamp[feedId].v > now
                                   THEN cache.timestamp[feedId] ELSE Num(now)]]

\* lines 163-164: two assignments with no await between them
CacheWrite(cache, feedId, feed, now) ==
    [data |-> [cache.data EXCEPT ![feedId] = feed],
     timestamp |-> [cache.timestamp EXCEPT ![feedId] = Num(now)]]

\* a plausible slip: the catch block logs and rethrows
OnFetchError_Rethrow(now) == Throw("transport")

\* the catch block of fetchMtaFeed
OnFetchError(now) == Return(EmptyFeed(now))

\* the record of a fetchMtaFeed call: its argument, its now, who called it,
\* the state of its upstream request ("none": not issued) and what the call
\* returned (Undefined while it awaits).  History: the number of upstream
\* requests the call has issued, the body of the 2xx response, if one came,
\* and the clock reading at which it came.
Call(feedId, now, owner, upstream, result) ==
    [feedId |-> feedId, now |-> now, owner |-> owner, upstream |-> upstream,
     requests |-> IF upstream = "none" THEN 0 ELSE 1,
     result |-> result, buffer |-> Undefined, resolvedAt |-> Undefined]

\* a plausible slip: the catch block stores the fallback feed it returns
CacheAfterReject_StoreFallback(cache, call) ==
    CacheWrite(cache, call.feedId, EmptyFeed(call.now), call.now)

\* lines 168-177: the catch block assigns nothing to apiCache
CacheAfterReject(cache, call) == cache

\* a plausible slip: the catch block issues the request once more before it
\* gives up
Rejected_Retry(call) ==
    IF call.requests < 2
        THEN [call EXCEPT !.requests = @ + 1]
        ELSE [call EXCEPT !.upstream = "failed", !.result = OnFetchError(call.now)]

\* lines 168-177: the call after its request was rejected
Rejected(call) ==
    [call EXCEPT !.upstream = "failed", !.result = OnFetchError(call.now)]

\* a plausible slip: the offline check left out of fetchMtaFeed
FetchStart_NoMockCheck(cache, useMock, feedId, now, owner) ==
    IF CacheFresh(cache, feedId, now)
        THEN Call(feedId, now, owner, "none", Return(cache.data[feedId]))
        ELSE Call(feedId, now, owner, "pending", Undefined)

\* fetchMtaFeed up to its first await (lines 136-157)
FetchStart(cache, useMock, feedId, now, owner) ==
    IF CacheFresh(cache, feedId, now)
        THEN Call(feedId, now, owner, "none", Return(cache.data[feedId]))
        ELSE IF useMock
        THEN Call(feedId, now, owner, "none", Return(EmptyFeed(now)))
        ELSE Call(feedId, now, owner, "pending", Undefined)

IsPending(c) == c.upstream = "pending"
IsDirect(c) == c.owner = "direct"
IsDone(c) == c.result # Undefined

-----------------------------------------------------------------------------
(* The station store (collection gtfs_processed_stations) and the upstream *)

S127 == <<"1", "2", "7">>
S635 == <<"6", "3", "5">>
S999 == <<"9", "9", "9">>

\* a station document whose lines array is empty
S901 == <<"9", "0", "1">>

StationStore ==
    {[id |-> S127, name |-> "Times Sq-42 St", lines |-> Arr(<<"1", "2", "3">>)],
     [id |-> S635, name |-> "14 St-Union Sq", lines |-> Arr(<<"6", "L">>)],
     [id |-> S901, name |-> "Unnamed", lines |-> Arr(<<>>)]}

StationIds == {S127, S635, S999}

\* db.collection(...).findOne({ id: stationId }); null is held as Undefined
findOne(stationId) ==
    IF \E st \in StationStore : st.id = stationId
        THEN CHOOSE st \in StationStore : st.id = stationId
        ELSE Undefined

Update(stopId, time) ==
    [stop_id |-> stopId, arrival |-> [t |-> "object", time |-> time, delay |-> Undefined]]

Trip(tripId, routeId, trainId) ==
    [t |-> "object", trip_id |-> tripId, route_id |-> routeId,
     extensions |-> IF trainId = Undefined THEN Undefined
                    ELSE [t |-> "object",
                          nyct_trip_descriptor |->
                              [t |-> "object", train_id |-> trainId, is_assigned |-> TRUE]]]

Entity(trip, updates) ==
    [trip_update |-> [t |-> "object", trip |-> trip, stop_time_update |-> Arr(updates)]]

Message(entities) == [header |-> [timestamp |-> Num(60)], entity |-> entities]

\* response bodies the upstream may send: bytes that do not decode, and two
\* feed messages
BadBytes == [malformed |-> TRUE]

PayloadIRT ==
    [malformed |-> FALSE,
     message |-> Message(<<
        Entity(Trip(Str(<<"036550_6", "PBP">>), "6", Undefined),
               <<Update(S635 \o <<"N">>, Long(100)), Update(S127 \o <<"N">>, Num(80))>>),
        Entity(Trip(Str(<<"036600_6">>), "6", Str(<<"06 0123+ PEL", "BBR">>)),
               <<Update(S635 \o <<"S">>, Num(70)), Update(S127 \o <<"S">>, Num(200))>>)>>)]

PayloadL ==
    [malformed |-> FALSE,
     message |-> Message(<<
        Entity(Trip(Str(<<"041200_L", "8AV">>), "L", Undefined),
               <<Update(S635 \o <<"N">>, Num(90))>>)>>)]

Payloads == {BadBytes, PayloadIRT, PayloadL}

\* the sources fetchMtaFeed is called for directly
DirectFeeds == {"IRT", "L"}

-----------------------------------------------------------------------------
(* Bounds of the model *)

Epoch == 60000
TickMs == 15000
MaxTicks == 3
MaxCalls == 2
MaxSeed == 3

Seeds == 0..MaxSeed

-----------------------------------------------------------------------------
(* getTrainArrivals *)

\* the record of a getTrainArrivals call: where it stands, its argument, the
\* station document, its fetches (calls[first] .. calls[first + n - 1]), the
\* now of line 219, and what it returned.  History: lookup, how findOne
\* ended ("none" before it ran, "failed" when it rejected, "missing" when it
\* gave null, "found"); at, the clock reading behind now; and extracted, what
\* the loop of lines 222-281 completed with.
IdleCall ==
    [pc |-> "idle", stationId |-> Undefined, lookup |-> "none", station |-> Undefined,
     first |-> 0, n |-> 0, now |-> Undefined, at |-> Undefined,
     extracted |-> Undefined, result |-> Undefined]

\* the catch block of getTrainArrivals
CatchResult == [arrivals |-> <<>>]

NotFoundResult(stationId) ==
    [arrivals |-> <<>>,
     station |-> [id |-> stationId, name |-> "Unknown Station", lines |-> <<>>]]

\* the object returned at the end of the try block
FoundResult(arrivals, stationId, station) ==
    [arrivals |-> SortByArrivalTime(arrivals),
     station |-> [id |-> stationId, name |-> station.name,
                  lines |-> IF station.lines = Undefined THEN <<>> ELSE station.lines.v]]

\* lines 222-281: Return(arrivals), or the error thrown on the way
Extract(feeds, stationId, nowMs) ==
    ProcessFeeds(Return(<<>>), feeds, 1, stationId, nowMs \div 1000)

\* a plausible slip: the synthetic arrivals are added whatever the loop found
ResultOf_AlwaysGenerate(extracted, stationId, station, nowMs, seed) ==
    IF extracted.kind = "throw" THEN CatchResult
    ELSE FoundResult(extracted.value \o generateMockArrivals(station, nowMs, seed),
                     stationId, station)

\* lines 283-307: what the call returns, given what the loop completed with
ResultOf(extracted, stationId, station, nowMs, seed) ==
    IF extracted.kind = "throw" THEN CatchResult
    ELSE FoundResult(IF Len(extracted.value) = 0
                         THEN generateMockArrivals(station, nowMs, seed)
                         ELSE extracted.value,
                     stationId, station)

GtaCalls == {i \in DOMAIN calls : gta.first <= i /\ i < gta.first + gta.n}
GtaFeeds == [k \in 1..gta.n |-> calls[gta.first + k - 1].result.value]

-----------------------------------------------------------------------------
(* Actions *)

Tick ==
    /\ clock + TickMs <= Epoch + MaxTicks * TickMs
    /\ clock' = clock + TickMs
    /\ UNCHANGED <<pureVars, USE_MOCK_DATA, dbVars, fetchVars, gta>>

\* a caller invokes fetchMtaFeed(feedId)
FetchCall(feedId) ==
    /\ Len(calls) < MaxCalls
    /\ calls' = Append(calls, FetchStart(apiCache, USE_MOCK_DATA, feedId, clock, "direct"))
    /\ UNCHANGED <<pureVars, clock, USE_MOCK_DATA, dbVars, apiCache, gta>>

\* axios.get resolves for call i with a 2xx response carrying buffer (lines 159-167)
FetchResolve(i, buffer) ==
    /\ IsPending(calls[i])
    /\ LET c == calls[i]
           parsed == parseGtfsRealtimeFeed(buffer, clock)
       IN  IF parsed.kind = "throw"
           THEN /\ calls' = [calls EXCEPT ![i].upstream = "ok",
                                          ![i].buffer = buffer,
                                          ![i].resolvedAt = Num(clock),
                                          ![i].result = OnFetchError(c.now)]
                /\ UNCHANGED apiCache
           ELSE /\ apiCache' = CacheWrite(apiCache, c.feedId, parsed.value, c.now)
                /\ calls' = [calls EXCEPT ![i].upstream = "ok",
                                          ![i].buffer = buffer,
                                          ![i].resolvedAt = Num(clock),
                                          ![i].result = parsed]
    /\ UNCHANGED <<pureVars, clock, USE_MOCK_DATA, dbVars, gta>>

\* axios.get rejects for call i: timeout, non-2xx status, network error
FetchReject(i) ==
    /\ IsPending(calls[i])
    /\ calls' = [calls EXCEPT ![i] = Rejected(calls[i])]
    /\ apiCache' = CacheAfterReject(apiCache, calls[i])
    /\ UNCHANGED <<pureVars, clock, USE_MOCK_DATA, dbVars, gta>>

\* a caller invokes getTrainArrivals(stationId); it awaits connectToDatabase().
\* The records of the fetches of the request before are let go.
GtaCall(stationId) ==
    /\ gta.pc \in {"idle", "returned"}
    /\ gta' = [IdleCall EXCEPT !.pc = "connecting", !.stationId = stationId]
    /\ calls' = SelectSeq(calls, IsDirect)
    /\ UNCHANGED <<pureVars, clock, USE_MOCK_DATA, dbVars, apiCache>>

\* connectToDatabase() resolves, or rejects and the catch block returns
GtaConnect(ok) ==
    /\ gta.pc = "connecting"
    /\ gta' = IF ok THEN [gta EXCEPT !.pc = "finding"]
              ELSE [gta EXCEPT !.pc = "returned", !.result = CatchResult]
    /\ UNCHANGED <<pureVars, clock, USE_MOCK_DATA, dbVars, fetchVars>>

\* findOne resolves (or rejects); lines 193-216 run up to await Promise.all
GtaFindOne(ok, seed) ==
    /\ gta.pc = "finding"
    /\ LET station == findOne(gta.stationId)
       IN  IF ~ok
           THEN /\ gta' = [gta EXCEPT !.pc = "returned", !.lookup = "failed",
                                      !.result = CatchResult]
                /\ UNCHANGED calls
           ELSE IF station = Undefined
           THEN /\ gta' = [gta EXCEPT !.pc = "returned", !.lookup = "missing",
                                      !.result = NotFoundResult(gta.stationId)]
                /\ UNCHANGED calls
           ELSE IF USE_MOCK_DATA
           THEN /\ gta' = [gta EXCEPT !.pc = "returned", !.lookup = "found",
                                      !.station = station,
                                      !.result = FoundResult(
                                          generateMockArrivals(station, clock, seed),
                                          gta.stationId, station)]
                /\ UNCHANGED calls
           ELSE LET relevantFeeds == getRelevantFeeds(station.lines)
                IN  /\ calls' = calls \o
                           [k \in 1..Len(relevantFeeds) |->
                               FetchStart(apiCache, USE_MOCK_DATA, relevantFeeds[k],
                                          clock, "gta")]
                    /\ gta' = [gta EXCEPT !.pc = "fetching", !.lookup = "found",
                                          !.station = station,
                                          !.first = Len(calls) + 1,
                                          !.n = Len(relevantFeeds)]
    /\ UNCHANGED <<pureVars, clock, USE_MOCK_DATA, dbVars, apiCache>>

\* Promise.all settles: extraction, fallback, sort and return.  A rejected
\* fetch rejects Promise.all and the catch block returns.
GtaJoin(seed) ==
    /\ gta.pc = "fetching"
    /\ \A i \in GtaCalls : IsDone(calls[i])
    /\ IF \E i \in GtaCalls : calls[i].result.kind = "throw"
       THEN gta' = [gta EXCEPT !.pc = "returned", !.result = CatchResult]
       ELSE LET extracted == Extract(GtaFeeds, gta.stationId, clock)
            IN  gta' = [gta EXCEPT
                          !.pc = "returned",
                          !.now = Num(clock \div 1000),
                          !.at = Num(clock),
                          !.extracted = extracted,
                          !.result = ResultOf(extracted, gta.stationId, gta.station,
                                              clock, seed)]
    /\ UNCHANGED <<pureVars, clock, USE_MOCK_DATA, dbVars, fetchVars>>

Init ==
    /\ routerIn = Undefined
    /\ routerOut = NotCalled
    /\ route = IdleRoute
    /\ cached = NoConnection
    /\ dbCalls = NoDbCalls
    /\ clock = Epoch
    /\ USE_MOCK_DATA \in BOOLEAN
    /\ apiCache = EmptyCache
    /\ calls = <<>>
    /\ gta = IdleCall

\* Spec: requests to getTrainArrivals, one after the other, over one process
Next ==
    \/ Tick
    \/ \E i \in DOMAIN calls, buffer \in Payloads : FetchResolve(i, buffer)
    \/ \E i \in DOMAIN calls : FetchReject(i)
    \/ \E stationId \in StationIds : GtaCall(stationId)
    \/ \E ok \in BOOLEAN : GtaConnect(ok)
    \/ \E ok \in BOOLEAN, seed \in Seeds : GtaFindOne(ok, seed)
    \/ \E seed \in Seeds : GtaJoin(seed)

Spec == Init /\ [][Next]_vars

\* SpecFetch: overlapping calls of fetchMtaFeed with the offline flag unset
FetchInit ==
    /\ Init
    /\ USE_MOCK_DATA = FALSE

FetchNext ==
    \/ Tick
    \/ \E feedId \in DirectFeeds : FetchCall(feedId)
    \/ \E i \in DOMAIN calls, buffer \in Payloads : FetchResolve(i, buffer)
    \/ \E i \in DOMAIN calls : FetchReject(i)

SpecFetch == FetchInit /\ [][FetchNext]_vars

\* SpecCalls: overlapping calls of fetchMtaFeed in a process started with the
\* offline flag set or unset
SpecCalls == Init /\ [][FetchNext]_vars

\* SpecOffline: the process started with USE_MOCK_DATA=true.  No request is
\* ever pending there (OfflineNoUpstream), so no response action is enabled
\* and none is listed.
OfflineInit ==
    /\ Init
    /\ USE_MOCK_DATA = TRUE

OfflineNext ==
    \/ Tick
    \/ \E feedId \in DirectFeeds : FetchCall(feedId)
    \/ \E stationId \in StationIds : GtaCall(stationId)
    \/ \E ok \in BOOLEAN : GtaConnect(ok)
    \/ \E ok \in BOOLEAN, seed \in Seeds : GtaFindOne(ok, seed)

SpecOffline == OfflineInit /\ [][OfflineNext]_vars


-----------------------------------------------------------------------------
(* SpecRouter: getRelevantFeeds applied to every bounded line list *)

MaxStationLines == 2

\* a line no registry feed serves
UnknownLine == "X"

RouterLines == RegistryLines \cup {UnknownLine}

RECURSIVE SeqsUpTo(_, _)
SeqsUpTo(S, n) ==
    IF n = 0 THEN {<<>>}
    ELSE LET shorter == SeqsUpTo(S, n - 1)
         IN  shorter \cup {Append(s, x) : s \in {t \in shorter : Len(t) = n - 1}, x \in S}

RouterInputs == {Undefined} \cup {Arr(s) : s \in SeqsUpTo(RouterLines, MaxStationLines)}

RouterInit ==
    /\ routerIn \in RouterInputs
    /\ routerOut = NotCalled
    /\ route = IdleRoute
    /\ cached = NoConnection
    /\ dbCalls = NoDbCalls
    /\ clock = Epoch
    /\ USE_MOCK_DATA = FALSE
    /\ apiCache = EmptyCache
    /\ calls = <<>>
    /\ gta = IdleCall

RouterCall ==
    /\ routerOut = NotCalled
    /\ routerOut' = Arr(getRelevantFeeds(routerIn))
    /\ UNCHANGED <<routerIn, clock, USE_MOCK_DATA, dbVars, fetchVars, gta, route>>

SpecRouter == RouterInit /\ [][RouterCall]_vars

\* the lines of the input that some registry feed serves
ServedLines(stationLines) ==
    IF stationLines = Undefined THEN {}
    ELSE SeqToSet(stationLines.v) \cap RegistryLines

IntersectingFeeds(stationLines) ==
    {f \in FeedIds : SeqToSet(MTA_FEEDS[f].lines) \cap ServedLines(stationLines) # {}}

\* C1: for a non-empty line list with at least one served line, the result is
\* exactly the feeds whose line set meets the input, each returned once.
RouterExactIntersection ==
    (routerOut # NotCalled /\ ServedLines(routerIn) # {}) =>
        /\ SeqToSet(routerOut.v) = IntersectingFeeds(routerIn)
        /\ NoDuplicates(routerOut.v)

\* C1 witness: two lines of one feed and the call has returned that one feed
RouterExactWitness ==
    /\ routerIn = Arr(<<"1", "2">>)
    /\ routerOut = Arr(<<"IRT">>)

\* C2: a missing or empty line list, or one with no served line, yields the
\* full registry of 8 feed ids.
RouterFailOpen ==
    (routerOut # NotCalled /\ ServedLines(routerIn) = {}) =>
        /\ routerOut.v = ObjectKeys
        /\ Cardinality(SeqToSet(routerOut.v)) = 8

\* C2 witness: a list holding only an unserved line got the full registry
RouterFailOpenWitness ==
    /\ routerIn = Arr(<<UnknownLine>>)
    /\ routerOut = Arr(ObjectKeys)

-----------------------------------------------------------------------------
(* SpecExtract: the join of getTrainArrivals for station 635 applied to every *)
(* bounded pair of decoded feeds.  A pair of feeds is built from a list of    *)
(* items: a stop-time update, the trip it belongs to (a trip of line 6 goes   *)
(* to the IRT feed, a trip of line L to the L feed) and whether it opens a    *)
(* new entity or joins the last entity of its feed.                           *)

MaxItems == 2

N635 == S635 \o <<"N">>
S635S == S635 \o <<"S">>
N636 == <<"6", "3", "6", "N">>

\* the request is joined at Epoch + TickMs, second 75
ExtractUpdates ==
    {Update(N635, Num(76)),
     Update(S635S, Long(90)),
     Update(N635, Num(75)),
     Update(S635S, Num(61)),
     [stop_id |-> N635, arrival |-> Undefined],
     Update(N636, Num(76))}

TripDotted == Trip(Str(<<"036550_6", "PBP">>), "6", Undefined)
TripVendor == Trip(Str(<<"041200_L">>), "L", Str(<<"0L 0412 8AV", "CAN">>))
TripNumericId == Trip(Num(36550), "6", Undefined)
TripNumericTrainId == Trip(Str(<<"041300_L">>), "L", Num(412))

ExtractTrips == {TripDotted, TripVendor, TripNumericId, TripNumericTrainId}

FeedOfTrip(trip) == IF trip.route_id = "6" THEN 1 ELSE 2

ExtractItems == [trip : ExtractTrips, update : ExtractUpdates, join : BOOLEAN]

AddItem(entities, item) ==
    IF item.join /\ entities # <<>>
    THEN [entities EXCEPT ![Len(entities)].trip_update.stop_time_update.v =
                              Append(@, item.update)]
    ELSE Append(entities, Entity(item.trip, <<item.update>>))

RECURSIVE BuildFeeds(_, _, _)
BuildFeeds(feeds, items, k) ==
    IF k > Len(items) THEN feeds
    ELSE LET f == FeedOfTrip(items[k].trip)
         IN  BuildFeeds([feeds EXCEPT ![f] = AddItem(@, items[k])], items, k + 1)

ExtractInputs ==
    {BuildFeeds(<<<<>>, <<>>>>, items, 1) : items \in SeqsUpTo(ExtractItems, MaxItems)}

\* the IRT feed was fetched by this request, the L feed is served from the
\* cache, where a request of one tick earlier stored it
ExtractInit ==
    /\ routerIn = Undefined
    /\ routerOut = NotCalled
    /\ route = IdleRoute
    /\ cached = NoConnection
    /\ dbCalls = NoDbCalls
    /\ clock = Epoch + TickMs
    /\ USE_MOCK_DATA = FALSE
    /\ \E input \in ExtractInputs :
          /\ apiCache = [data |-> [f \in FeedIds |->
                                      IF f = "IRT" THEN Message(input[1])
                                      ELSE IF f = "L" THEN Message(input[2])
                                      ELSE Undefined],
                         timestamp |-> [f \in FeedIds |->
                                      IF f = "IRT" THEN Num(clock)
                                      ELSE IF f = "L" THEN Num(Epoch)
                                      ELSE Undefined]]
          /\ calls = <<[Call("IRT", clock, "gta", "ok", Return(Message(input[1])))
                           EXCEPT !.buffer = [malformed |-> FALSE,
                                              message |-> Message(input[1])],
                                  !.resolvedAt = Num(clock)],
                       Call("L", clock, "gta", "none", Return(Message(input[2])))>>
    /\ gta = [IdleCall EXCEPT !.pc = "fetching", !.stationId = S635,
                              !.lookup = "found",
                              !.station = findOne(S635), !.first = 1, !.n = 2]

ExtractNext == \E seed \in Seeds : GtaJoin(seed)

SpecExtract == ExtractInit /\ [][ExtractNext]_vars

-----------------------------------------------------------------------------
(* Station route (GET), lines 100-194: the real-time arrivals of           *)
(* getTrainArrivals merged with the scheduled departures                    *)

DedupWindowMs == 120000
DefaultLimit == 20
DefaultRating == 5

\* lineColors of getLineColor, the route's own table
routeLineColors ==
    [l \in {"1", "2", "3"} |-> "#EE352E"] @@
    [l \in {"4", "5", "6"} |-> "#00933C"] @@
    [l \in {"7"} |-> "#B933AD"] @@
    [l \in {"A", "C", "E", "H", "SI"} |-> "#2850AD"] @@
    [l \in {"B", "D", "F", "M"} |-> "#FF6319"] @@
    [l \in {"G"} |-> "#6CBE45"] @@
    [l \in {"J", "Z"} |-> "#996633"] @@
    [l \in {"L"} |-> "#A7A9AC"] @@
    [l \in {"N", "Q", "R", "W"} |-> "#FCCC0A"] @@
    [l \in {"S", "GS"} |-> "#808183"]

getLineColor(line) ==
    IF line \in DOMAIN routeLineColors THEN routeLineColors[line] ELSE "#808183"

Abs(x) == IF x < 0 THEN -x ELSE x

\* Math.round(a / b) for b > 0
RoundDiv(a, b) == (2 * a + b) \div (2 * b)

\* lines 112-122: what the route keeps of a train of mtaData.arrivals (no
\* rating is on record for the train, so the rating is the default)
RealtimeEntry(train) ==
    [id            |-> train.id,
     line          |-> train.line,
     destination   |-> train.destination,
     arrivalTime   |-> train.arrivalTime,
     currentRating |-> DefaultRating,
     color         |-> train.color,
     delay         |-> train.delay,
     isRealtime    |-> TRUE,
     trainId       |-> IF Truthy(train.trainId) THEN train.trainId ELSE train.id]

\* a plausible slip: the schedule-derived entry is flagged as real-time
ScheduledEntry_Realtime(scheduled) ==
    [id          |-> scheduled.trip_id,
     line        |-> scheduled.route_short_name,
     destination |-> scheduled.headsign,
     arrivalTime |-> scheduled.arrival_timestamp,
     color       |-> IF scheduled.route_color # "" THEN scheduled.route_color
                     ELSE getLineColor(scheduled.route_short_name),
     delay       |-> 0,
     isRealtime  |-> TRUE]

\* lines 143-151: the entry pushed for a scheduled departure
ScheduledEntry(scheduled) ==
    [id          |-> scheduled.trip_id,
     line        |-> scheduled.route_short_name,
     destination |-> scheduled.headsign,
     arrivalTime |-> scheduled.arrival_timestamp,
     color       |-> IF scheduled.route_color # "" THEN scheduled.route_color
                     ELSE getLineColor(scheduled.route_short_name),
     delay       |-> 0,
     isRealtime  |-> FALSE]

\* lines 137-140: realtimeArrivals.some(rt => ...)
hasRealtime(realtimeArrivals, scheduled) ==
    \E i \in DOMAIN realtimeArrivals :
        /\ realtimeArrivals[i].line = scheduled.route_short_name
        /\ Abs(DateParse(realtimeArrivals[i].arrivalTime)
               - DateParse(scheduled.arrival_timestamp)) < DedupWindowMs

\* lines 136-153: scheduledDepartures.forEach(...), from departure k on
RECURSIVE AddScheduled(_, _, _, _)
AddScheduled(combinedArrivals, realtimeArrivals, scheduledDepartures, k) ==
    IF k > Len(scheduledDepartures) THEN combinedArrivals
    ELSE AddScheduled(
             IF hasRealtime(realtimeArrivals, scheduledDepartures[k])
                 THEN combinedArrivals
                 ELSE Append(combinedArrivals, ScheduledEntry(scheduledDepartures[k])),
             realtimeArrivals, scheduledDepartures, k + 1)

\* lines 133-153
Combine(realtimeArrivals, scheduledDepartures) ==
    AddScheduled(realtimeArrivals, realtimeArrivals, scheduledDepartures, 1)

\* a plausible slip: >= keeps an entry due at the very merge time
IsAhead_Inclusive(arrival, now) == DateParse(arrival.arrivalTime) >= now

\* lines 160-162
IsAhead(arrival, now) == DateParse(arrival.arrivalTime) > now

FilterFuture(arrivals, now) == SelectSeq(arrivals, LAMBDA a : IsAhead(a, now))

\* a plausible slip: the merge flags everything it takes as real-time input
Merge_Reflag(realtimeArrivals, scheduledDepartures, now) ==
    FilterFuture(
        SortByArrivalTime(
            Combine([i \in DOMAIN realtimeArrivals |->
                        [realtimeArrivals[i] EXCEPT !.isRealtime = TRUE]],
                    scheduledDepartures)),
        now)

\* lines 133-162: combine, sort (line 156, the comparator of mtaApi.js line
\* 294), filter
Merge(realtimeArrivals, scheduledDepartures, now) ==
    FilterFuture(SortByArrivalTime(Combine(realtimeArrivals, scheduledDepartures)), now)

\* lines 165-176
WithInfo(arrival, now) ==
    LET delayMinutes == RoundDiv(arrival.delay, 60)
    IN  arrival @@
        [minutesUntil |-> RoundDiv(DateParse(arrival.arrivalTime) - now, 60000),
         delayMinutes |-> delayMinutes,
         delayInfo    |-> IF arrival.delay > 0
                              THEN [t |-> "string", delayed |-> delayMinutes]
                              ELSE [t |-> "null"]]

\* line 179: slice(0, limit)
Slice(arrivals, limit) ==
    IF Len(arrivals) <= limit THEN arrivals ELSE SubSeq(arrivals, 1, limit)

\* the route from line 100 on, as one step: real-time arrivals (when asked
\* for), merge, sort, filter, information fields, limit.  History: the
\* intermediate lists.
RouteRespond ==
    /\ route.pc = "merging"
    /\ LET now == clock
           realtimeArrivals ==
               IF route.useRealtime
                   THEN [i \in DOMAIN route.mtaArrivals |->
                            RealtimeEntry(route.mtaArrivals[i])]
                   ELSE <<>>
           combinedArrivals == Combine(realtimeArrivals, route.scheduledDepartures)
           filteredArrivals == Merge(realtimeArrivals, route.scheduledDepartures, now)
       IN  route' = [pc |-> "responded",
                     useRealtime |-> route.useRealtime,
                     mtaArrivals |-> route.mtaArrivals,
                     scheduledDepartures |-> route.scheduledDepartures,
                     limit |-> route.limit,
                     now |-> now,
                     realtimeArrivals |-> realtimeArrivals,
                     combinedArrivals |-> combinedArrivals,
                     filteredArrivals |-> filteredArrivals,
                     arrivals |-> Slice([i \in DOMAIN filteredArrivals |->
                                            WithInfo(filteredArrivals[i], now)],
                                        route.limit),
                     again |-> Undefined]
    /\ UNCHANGED <<routerIn, routerOut, clock, USE_MOCK_DATA, dbVars, fetchVars, gta>>

\* the merge applied once more, to the merged list and an empty schedule, at
\* the same merge time
RouteRemerge ==
    /\ route.pc = "responded"
    /\ route' = [route EXCEPT !.pc = "remerged",
                              !.again = Arr(Merge(route.filteredArrivals, <<>>, route.now))]
    /\ UNCHANGED <<routerIn, routerOut, clock, USE_MOCK_DATA, dbVars, fetchVars, gta>>

\* SpecMerge: the route merges lists of real-time arrivals and of scheduled
\* departures, both in ascending order of time as their producers leave them
MaxRealtime == 2
MaxScheduled == 2

\* an arrival as getTrainArrivals returns it, offsetMs after the merge time
RouteTrain(id, line, offsetMs, delay) ==
    [id          |-> Str(<<id>>),
     line        |-> line,
     direction   |-> "NORTH",
     destination |-> "Pelham Bay Park",
     arrivalTime |-> toISOString(Epoch + offsetMs),
     delay       |-> delay,
     isRealtime  |-> TRUE,
     isAssigned  |-> TRUE,
     color       |-> ColorOf(line),
     trainId     |-> Str(<<"0", id>>)]

\* a departure as getStationSchedule returns it (the fields the route reads)
Departure(tripId, line, offsetMs) ==
    [trip_id           |-> Str(<<tripId>>),
     route_short_name  |-> line,
     headsign          |-> "Pelham Bay Park",
     arrival_timestamp |-> toISOString(Epoch + offsetMs),
     route_color       |-> ""]

\* T is half a minute after the merge time
SoonMs == 30 * 1000

RouteTrains ==
    <<RouteTrain("R2", "6", -SoonMs, 0),
      RouteTrain("R1", "6", SoonMs, 60),
      RouteTrain("R3", "L", SoonMs, 0)>>

\* departures of line 6 before the merge time, 60 s, 90 s and 120 s after
\* the real-time arrival R1 (one of them the trip R1 itself), and departures
\* of line L, one of them at the very merge time
Departures ==
    <<Departure("S5", "6", -(SoonMs \div 2)),
      Departure("S6", "L", 0),
      Departure("S3", "6", SoonMs + 60 * 1000),
      Departure("R1", "6", SoonMs + 90 * 1000),
      Departure("S4", "L", SoonMs + 90 * 1000),
      Departure("S2", "6", SoonMs + DedupWindowMs)>>

\* the elements of seq at the positions of S, in order
RECURSIVE PickFrom(_, _, _)
PickFrom(seq, S, i) ==
    IF i > Len(seq) THEN <<>>
    ELSE (IF i \in S THEN <<seq[i]>> ELSE <<>>) \o PickFrom(seq, S, i + 1)

SubSeqsUpTo(seq, n) ==
    {PickFrom(seq, S, 1) : S \in {T \in SUBSET DOMAIN seq : Cardinality(T) <= n}}

\* what getTrainArrivals returns for station 635 when it falls back to the
\* generator at the merge time (mtaApi.js lines 210-213 and 284-287)
SyntheticTrains ==
    {generateMockArrivals(findOne(S635), Epoch, seed) : seed \in Seeds}

RouteInputs ==
    [pc : {"merging"},
     useRealtime : BOOLEAN,
     mtaArrivals : SubSeqsUpTo(RouteTrains, MaxRealtime) \cup SyntheticTrains,
     scheduledDepartures : SubSeqsUpTo(Departures, MaxScheduled),
     limit : {1, DefaultLimit}]

MergeInit ==
    /\ routerIn = Undefined
    /\ routerOut = NotCalled
    /\ clock = Epoch
    /\ USE_MOCK_DATA = FALSE
    /\ apiCache = EmptyCache
    /\ calls = <<>>
    /\ gta = IdleCall
    /\ route \in RouteInputs
    /\ cached = NoConnection
    /\ dbCalls = NoDbCalls

MergeNext == RouteRespond \/ RouteRemerge

SpecMerge == MergeInit /\ [][MergeNext]_vars

-----------------------------------------------------------------------------
(* Schedule/Realtime Merge, under SpecMerge *)

Responded == route.pc \in {"responded", "remerged"}

\* the merged list: combined, sorted, filtered to the future
Merged == route.filteredArrivals

TimeGap(a, b) == Abs(DateParse(a) - DateParse(b))

\* C15: the merged list never holds a real-time entry and a schedule-derived
\* entry of the same line whose arrival times are 120 seconds apart or less.
DedupInvariant ==
    Responded =>
        \A i, j \in DOMAIN Merged :
            (/\ Merged[i].isRealtime
             /\ ~Merged[j].isRealtime
             /\ Merged[i].line = Merged[j].line)
            => TimeGap(Merged[i].arrivalTime, Merged[j].arrivalTime) > DedupWindowMs

RealtimeIds == {route.realtimeArrivals[i].id : i \in DOMAIN route.realtimeArrivals}
ScheduledIds == {route.scheduledDepartures[k].trip_id : k \in DOMAIN route.scheduledDepartures}

EntriesOfTrip(arrivals, id) == {m \in DOMAIN arrivals : arrivals[m].id = id}

\* C16: a trip with a future arrival time that only the schedule or only the
\* real-time source knows is in the merged list, and a trip with a future
\* arrival time in both sources is there exactly once.
NoTripLostOrDoubled ==
    Responded =>
        /\ \A k \in DOMAIN route.scheduledDepartures :
              LET d == route.scheduledDepartures[k]
              IN  (d.trip_id \notin RealtimeIds
                   /\ DateParse(d.arrival_timestamp) > route.now)
                  => EntriesOfTrip(Merged, d.trip_id) # {}
        /\ \A i \in DOMAIN route.realtimeArrivals :
              LET rt == route.realtimeArrivals[i]
              IN  (rt.id \notin ScheduledIds /\ DateParse(rt.arrivalTime) > route.now)
                  => EntriesOfTrip(Merged, rt.id) # {}
        /\ \A i \in DOMAIN route.realtimeArrivals :
              \A k \in DOMAIN route.scheduledDepartures :
                  LET rt == route.realtimeArrivals[i]
                      d  == route.scheduledDepartures[k]
                  IN  (/\ rt.id = d.trip_id
                       /\ DateParse(rt.arrivalTime) > route.now
                       /\ DateParse(d.arrival_timestamp) > route.now)
                      => Cardinality(EntriesOfTrip(Merged, rt.id)) = 1

\* C17: at a fixed merge time, merging the merged list with an empty
\* schedule gives the merged list again, same entries in the same order.
MergeIdempotent ==
    route.pc = "remerged" => route.again.v = Merged

\* C17 witness: a merged list of a real-time and a schedule-derived entry,
\* left after an entry in the past was filtered out, was merged again
MergeIdempotentWitness ==
    /\ route.pc = "remerged"
    /\ Len(Merged) = 2
    /\ Len(route.combinedArrivals) > Len(Merged)
    /\ \E m \in DOMAIN Merged : Merged[m].isRealtime
    /\ \E m \in DOMAIN Merged : ~Merged[m].isRealtime

\* a real-time arrival of the line of departure d less than 120 s from it
Matched(d) ==
    \E i \in DOMAIN route.realtimeArrivals :
        /\ route.realtimeArrivals[i].line = d.route_short_name
        /\ TimeGap(route.realtimeArrivals[i].arrivalTime, d.arrival_timestamp)
               < DedupWindowMs

\* the entries appended after the real-time arrivals that carry departure d
AppendedFor(d) ==
    {m \in DOMAIN route.combinedArrivals :
        /\ m > Len(route.realtimeArrivals)
        /\ route.combinedArrivals[m].id = d.trip_id
        /\ route.combinedArrivals[m].line = d.route_short_name
        /\ route.combinedArrivals[m].destination = d.headsign
        /\ route.combinedArrivals[m].arrivalTime = d.arrival_timestamp}

\* C20: a scheduled departure with no real-time arrival of its line within
\* 120 seconds is appended exactly once, with its trip id, line, headsign and
\* scheduled arrival timestamp, the realtime flag false and delay zero.
UnmatchedScheduledKept ==
    Responded =>
        \A k \in DOMAIN route.scheduledDepartures :
            LET d == route.scheduledDepartures[k]
            IN  ~Matched(d) =>
                    /\ Cardinality(AppendedFor(d)) = 1
                    /\ \A m \in AppendedFor(d) :
                          /\ route.combinedArrivals[m].isRealtime = FALSE
                          /\ route.combinedArrivals[m].delay = 0

\* C20 witness: of two scheduled departures one had a real-time arrival of
\* its line within 120 seconds and was dropped, the other was appended
UnmatchedScheduledWitness ==
    /\ Responded
    /\ Len(route.realtimeArrivals) > 0
    /\ Len(route.scheduledDepartures) = 2
    /\ Matched(route.scheduledDepartures[1])
    /\ ~Matched(route.scheduledDepartures[2])
    /\ Len(route.combinedArrivals) = Len(route.realtimeArrivals) + 1

\* C21: the merged list is in ascending order of arrival time and holds no
\* entry, real-time or schedule-derived, due at or before the merge time; the
\* same is true of the arrivals of the response.
MergedSortedAndFuture ==
    Responded =>
        /\ \A i, j \in DOMAIN Merged :
              i < j => DateParse(Merged[i].arrivalTime) <= DateParse(Merged[j].arrivalTime)
        /\ \A m \in DOMAIN Merged : DateParse(Merged[m].arrivalTime) > route.now
        /\ \A i, j \in DOMAIN route.arrivals :
              i < j => DateParse(route.arrivals[i].arrivalTime)
                          <= DateParse(route.arrivals[j].arrivalTime)
        /\ \A m \in DOMAIN route.arrivals :
              DateParse(route.arrivals[m].arrivalTime) > route.now

\* C21 witness: the combined list had a later entry ahead of an earlier one
\* and an entry due at the very merge time; the merged list kept a real-time
\* and a schedule-derived entry
MergedSortedWitness ==
    /\ Responded
    /\ \E i, j \in DOMAIN route.combinedArrivals :
          /\ i < j
          /\ DateParse(route.combinedArrivals[i].arrivalTime)
                > DateParse(route.combinedArrivals[j].arrivalTime)
    /\ \E m \in DOMAIN route.combinedArrivals :
          DateParse(route.combinedArrivals[m].arrivalTime) = route.now
    /\ \E m \in DOMAIN Merged : Merged[m].isRealtime
    /\ \E m \in DOMAIN Merged : ~Merged[m].isRealtime

-----------------------------------------------------------------------------
(* Arrival Extractor, under SpecExtract and Spec *)

Returned == gta.pc = "returned"

\* the loop ran to its end and left these arrivals (before any fallback)
Emitted == gta.extracted.value
LoopCompleted == Returned /\ gta.extracted # Undefined /\ gta.extracted.kind = "return"

\* the stop-time updates the loop walks, as <<feed, entity, update>> positions
UpdatesOf(entity) ==
    IF /\ entity.trip_update # Undefined
       /\ entity.trip_update.trip # Undefined
       /\ entity.trip_update.stop_time_update # Undefined
       /\ entity.trip_update.stop_time_update.t = "array"
    THEN entity.trip_update.stop_time_update.v
    ELSE <<>>

UpdatePositions ==
    {<<i, j, k>> \in (1..gta.n) \X (1..(MaxItems + 4)) \X (1..(MaxItems + 4)) :
        /\ j <= Len(GtaFeeds[i].entity)
        /\ k <= Len(UpdatesOf(GtaFeeds[i].entity[j]))}

UpdateAt(p) == UpdatesOf(GtaFeeds[p[1]].entity[p[2]])[p[3]]

\* the predicted arrival of an update in epoch seconds, 0 when it has none
PredictedSeconds(update) ==
    IF update.arrival = Undefined \/ update.arrival.time = Undefined THEN 0
    ELSE IF update.arrival.time.t = "Long" THEN update.arrival.time.low
    ELSE update.arrival.time.v

AtStation(update) ==
    update.stop_id \in {gta.stationId \o <<"N">>, gta.stationId \o <<"S">>}

\* the updates for the station predicted strictly after the extraction ran
FutureUpdates ==
    {p \in UpdatePositions :
        AtStation(UpdateAt(p)) /\ PredictedSeconds(UpdateAt(p)) * 1000 > gta.at.v}

\* C7: every arrival the loop emits is strictly later than the time at which
\* the extraction runs, and it emits one arrival per update for the station
\* that is predicted later than that time: an update that is due, past or
\* without arrival time emits nothing.
NoPastArrivals ==
    LoopCompleted =>
        /\ \A m \in DOMAIN Emitted : DateParse(Emitted[m].arrivalTime) > gta.at.v
        /\ Len(Emitted) = Cardinality(FutureUpdates)

\* C7 witness: the loop emitted an arrival while the feeds (one of them
\* served from the cache) also held an update for the station due at the
\* very second of extraction
NoPastArrivalsWitness ==
    /\ LoopCompleted
    /\ Len(Emitted) > 0
    /\ \E i \in GtaCalls : calls[i].upstream = "none"
    /\ \E p \in UpdatePositions :
          /\ AtStation(UpdateAt(p))
          /\ PredictedSeconds(UpdateAt(p)) = gta.now.v

\* the updates for stop id stop predicted after the extraction ran
FutureAt(stop) ==
    {p \in UpdatePositions :
        /\ UpdateAt(p).stop_id = stop
        /\ PredictedSeconds(UpdateAt(p)) * 1000 > gta.at.v}

Heading(direction) == {m \in DOMAIN Emitted : Emitted[m].direction = direction}

\* C19: the loop emits one NORTH arrival per future update whose stop id is
\* the station id followed by N, one SOUTH arrival per future update whose
\* stop id is the station id followed by S, and nothing else: an update for
\* any other stop id emits nothing.
StopFilterAndDirection ==
    LoopCompleted =>
        /\ Cardinality(Heading("NORTH"))
               = Cardinality(FutureAt(gta.stationId \o <<"N">>))
        /\ Cardinality(Heading("SOUTH"))
               = Cardinality(FutureAt(gta.stationId \o <<"S">>))
        /\ Heading("NORTH") \cup Heading("SOUTH") = DOMAIN Emitted

\* C19 witness: of a future update for the station's S stop and a future
\* update for a stop of another station, the loop emitted the first alone
StopFilterWitness ==
    /\ LoopCompleted
    /\ Len(Emitted) = 1
    /\ Emitted[1].direction = "SOUTH"
    /\ FutureAt(N636) # {}

\* C25: the loop never emits two arrivals with the same trip id and the same
\* direction for the station (in these feeds a trip id belongs to one feed).
NoDuplicateArrivals ==
    LoopCompleted =>
        \A m1, m2 \in DOMAIN Emitted :
            (Emitted[m1].id = Emitted[m2].id
             /\ Emitted[m1].direction = Emitted[m2].direction)
            => m1 = m2

\* C8: the arrivals a getTrainArrivals call returns are in ascending order
\* of arrival time.
ArrivalsSorted ==
    Returned =>
        \A i, j \in DOMAIN gta.result.arrivals :
            i < j => DateParse(gta.result.arrivals[i].arrivalTime)
                        <= DateParse(gta.result.arrivals[j].arrivalTime)

\* C8 witness: the loop emitted a later arrival before an earlier one, and the
\* call returned both
ArrivalsSortedWitness ==
    /\ LoopCompleted
    /\ Len(Emitted) = 2
    /\ DateParse(Emitted[1].arrivalTime) > DateParse(Emitted[2].arrivalTime)
    /\ Len(gta.result.arrivals) = 2

\* C9: the arrivals of every entity that is extracted without error on its
\* own are among the arrivals returned, whatever the other entities hold.
PerEntityIsolation ==
    Returned /\ gta.now # Undefined =>
        \A i \in 1..gta.n : \A j \in DOMAIN GtaFeeds[i].entity :
            LET alone == ProcessEntity(Return(<<>>), GtaFeeds[i].entity[j],
                                       gta.stationId, gta.now.v)
            IN  alone.kind = "return" =>
                    \A k \in DOMAIN alone.value :
                        \E m \in DOMAIN gta.result.arrivals :
                            gta.result.arrivals[m] = alone.value[k]

\* the fields of a NormalizedArrival
NormalizedArrivalFields ==
    {"id", "line", "direction", "destination", "arrivalTime", "delay",
     "isRealtime", "isAssigned", "color", "trainId"}

\* C10: every arrival record returned, extracted or synthetic, has exactly
\* the fields of a NormalizedArrival.
ShapeEquivalence ==
    Returned =>
        \A m \in DOMAIN gta.result.arrivals :
            DOMAIN gta.result.arrivals[m] = NormalizedArrivalFields

-----------------------------------------------------------------------------
(* Synthetic fallback and the result of getTrainArrivals, under Spec *)

\* the loop found nothing for the station and the generator was called
FellBack == LoopCompleted /\ Len(Emitted) = 0 /\ ~USE_MOCK_DATA

StationLines == IF gta.station.lines = Undefined THEN <<>> ELSE gta.station.lines.v

EntriesOfLine(arrivals, line) == {m \in DOMAIN arrivals : arrivals[m].line = line}

\* milliseconds from the generation time to the arrival time of an entry
AfterGeneration(a) == DateParse(a.arrivalTime) - gta.at.v

MinuteMs == 60 * 1000

\* C11: when the loop finds no qualifying arrival for a station served by a
\* non-empty line list and the offline flag is unset, the returned arrivals
\* hold 2 to 5 entries for each line of the station, no entry of another
\* line, and every arrival time lies 2 to 32 minutes after generation time.
SyntheticFallbackBounds ==
    (FellBack /\ Len(StationLines) > 0) =>
        LET arrivals == gta.result.arrivals
        IN  /\ \A k \in DOMAIN StationLines :
                  /\ Cardinality(EntriesOfLine(arrivals, StationLines[k])) >= 2
                  /\ Cardinality(EntriesOfLine(arrivals, StationLines[k])) <= 5
            /\ \A m \in DOMAIN arrivals :
                  /\ Includes(StationLines, arrivals[m].line)
                  /\ AfterGeneration(arrivals[m]) >= 2 * MinuteMs
                  /\ AfterGeneration(arrivals[m]) <= 32 * MinuteMs
            /\ Len(arrivals) >= 2 * Len(StationLines)
            /\ Len(arrivals) <= 5 * Len(StationLines)

\* C11 witness: station 127 (lines 1, 2, 3) fell back after its feed gave
\* nothing; one line got 5 entries, and the earliest entry is 2 minutes and
\* the latest 31 minutes after generation time
SyntheticFallbackWitness ==
    /\ FellBack
    /\ gta.stationId = S127
    /\ \E k \in DOMAIN StationLines :
          Cardinality(EntriesOfLine(gta.result.arrivals, StationLines[k])) = 5
    /\ \E m \in DOMAIN gta.result.arrivals :
          AfterGeneration(gta.result.arrivals[m]) = 2 * MinuteMs
    /\ \E m \in DOMAIN gta.result.arrivals :
          AfterGeneration(gta.result.arrivals[m]) = 31 * MinuteMs

\* what tells a caller that the call failed: getTrainArrivals has its whole
\* body in a try block whose catch returns, so its promise never rejects,
\* and a failure can only show as an error field of the returned object
IsErrorOutcome(result) == "error" \in DOMAIN result

\* C13: a getTrainArrivals call for a station id that the store does not
\* hold ends in an explicit error outcome, which a caller can tell from a
\* successful result without arrivals.
UnknownStationSurfaced ==
    (Returned /\ gta.lookup = "missing") =>
        /\ IsErrorOutcome(gta.result)
        /\ DOMAIN gta.result # DOMAIN FoundResult(<<>>, gta.stationId,
                                                  [name |-> "", lines |-> Arr(<<>>)])

\* the arrivals the loop gives for the feed of fetch i taken alone
ExtractedFrom(i) == Extract(<<calls[i].result.value>>, gta.stationId, gta.at.v)

\* C22: the extraction loop runs only when every fetch of the request has
\* completed, each with a feed or with the empty fallback; a request whose
\* station was found (offline flag unset) always gets to the loop, whichever
\* of its fetches failed in transport; and the arrivals of every feed that
\* did arrive are among the arrivals the loop emits.
JoinBeforeExtraction ==
    /\ gta.extracted # Undefined =>
          \A i \in GtaCalls :
              /\ IsDone(calls[i])
              /\ calls[i].result.kind = "return"
              /\ calls[i].upstream = "ok" => calls[i].resolvedAt.v <= gta.at.v
    /\ (Returned /\ gta.lookup = "found" /\ ~USE_MOCK_DATA) =>
          /\ gta.extracted # Undefined
          /\ gta.extracted.kind = "return" =>
                \A i \in GtaCalls :
                    ExtractedFrom(i).kind = "return" =>
                        \A k \in DOMAIN ExtractedFrom(i).value :
                            \E m \in DOMAIN Emitted :
                                Emitted[m] = ExtractedFrom(i).value[k]

\* C22 witness: of the two fetches of a request one failed in transport and
\* the other brought a feed, some time before the loop ran; the loop emitted
\* the arrivals of that feed
JoinBeforeExtractionWitness ==
    /\ LoopCompleted
    /\ gta.n = 2
    /\ Len(Emitted) > 0
    /\ \E i, j \in GtaCalls :
          /\ calls[i].upstream = "failed"
          /\ calls[j].upstream = "ok"
          /\ calls[j].resolvedAt.v < gta.at.v
          /\ Len(ExtractedFrom(j).value) > 0

\* an entry made by the generator: its id is the line and a random number
Synthetic(a) == "n" \in DOMAIN a.id

\* the entries of the combined list that the schedule contributed for
\* departure d
KeptFor(d) ==
    {m \in DOMAIN route.combinedArrivals :
        /\ ~route.combinedArrivals[m].isRealtime
        /\ route.combinedArrivals[m].id = d.trip_id
        /\ route.combinedArrivals[m].arrivalTime = d.arrival_timestamp}

\* C29: in the station route a scheduled departure is dropped from the
\* merged list only on account of an arrival decoded from a live feed:
\* whenever a departure of the schedule is missing from the combined list,
\* an arrival that is not synthetic, of its line and less than 120 seconds
\* from it, is among the real-time arrivals.
OnlyLiveSuppresses ==
    (route.pc \in {"responded", "remerged"}) =>
        \A k \in DOMAIN route.scheduledDepartures :
            LET d == route.scheduledDepartures[k]
            IN  KeptFor(d) = {} =>
                    \E i \in DOMAIN route.realtimeArrivals :
                        /\ ~Synthetic(route.realtimeArrivals[i])
                        /\ route.realtimeArrivals[i].line = d.route_short_name
                        /\ Abs(DateParse(route.realtimeArrivals[i].arrivalTime)
                               - DateParse(d.arrival_timestamp)) < DedupWindowMs

\* the request got to line 209 and did not end in the catch block
RanToReturn ==
    /\ Returned
    /\ gta.lookup = "found"
    /\ gta.extracted # Undefined => gta.extracted.kind = "return"

\* C24: a request for a station with lines that runs to its return gives
\* synthetic arrivals, and only those, when the offline flag is set or the
\* loop emitted nothing; when the loop emitted at least one arrival it gives
\* the emitted arrivals, and no synthetic entry.
GeneratorTrigger ==
    (RanToReturn /\ Len(StationLines) > 0) =>
        LET arrivals == gta.result.arrivals
        IN  IF USE_MOCK_DATA \/ Len(Emitted) = 0
            THEN /\ Len(arrivals) > 0
                 /\ \A m \in DOMAIN arrivals : Synthetic(arrivals[m])
            ELSE /\ Len(arrivals) = Len(Emitted)
                 /\ \A m \in DOMAIN arrivals :
                       /\ ~Synthetic(arrivals[m])
                       /\ \E k \in DOMAIN Emitted : Emitted[k] = arrivals[m]

\* C24 witness: with the offline flag unset, one of two feeds was empty and
\* the other gave arrivals; the request returned those
GeneratorTriggerWitness ==
    /\ RanToReturn
    /\ ~USE_MOCK_DATA
    /\ gta.n = 2
    /\ Len(Emitted) > 0
    /\ \E i \in GtaCalls : calls[i].result.value.entity = <<>>
    /\ Len(gta.result.arrivals) = Len(Emitted)

\* C14: every completed getTrainArrivals call returns an object with an
\* arrivals list and a station record made of id, name and lines.
ResultShape ==
    Returned =>
        /\ DOMAIN gta.result = {"arrivals", "station"}
        /\ DOMAIN gta.result.station = {"id", "name", "lines"}

\* SpecLineless: one request for the station without lines, which the router
\* sends to every feed of the registry; each fetch fails in transport, or
\* brings bytes that do not decode, or brings a feed without entities.
EmptyPayload == [malformed |-> FALSE, message |-> Message(<<>>)]

LinelessInit ==
    /\ routerIn = Undefined
    /\ routerOut = NotCalled
    /\ route = IdleRoute
    /\ cached = NoConnection
    /\ dbCalls = NoDbCalls
    /\ clock = Epoch
    /\ USE_MOCK_DATA = FALSE
    /\ apiCache = EmptyCache
    /\ calls = <<>>
    /\ gta = [IdleCall EXCEPT !.pc = "connecting", !.stationId = S901]

LinelessNext ==
    \/ \E ok \in BOOLEAN : GtaConnect(ok)
    \/ \E ok \in BOOLEAN, seed \in Seeds : GtaFindOne(ok, seed)
    \/ \E i \in DOMAIN calls, buffer \in {BadBytes, EmptyPayload} : FetchResolve(i, buffer)
    \/ \E i \in DOMAIN calls : FetchReject(i)
    \/ \E seed \in Seeds : GtaJoin(seed)

SpecLineless == LinelessInit /\ [][LinelessNext]_vars

\* C12: a getTrainArrivals call for a station that is in the station store
\* returns a non-empty arrivals list, whatever transport failures, decode
\* failures and empty feeds its fetches met.
AlwaysSomeArrivals ==
    (Returned /\ gta.station # Undefined) => Len(gta.result.arrivals) > 0

-----------------------------------------------------------------------------
(* Feed Fetcher and Feed Decoder, under SpecFetch and SpecOffline *)

\* call w wrote the cache entry of its source (lines 163-164)
Stored(w) == calls[w].upstream = "ok" /\ calls[w].result.kind = "return"

\* C3: a call for a source whose cache entry was stored less than 30 seconds
\* before it returns the cached feed and issues no upstream request, however
\* long the fetch that stored the entry took.
CacheHitWithin30sOfStore ==
    \A w, c \in DOMAIN calls :
        (/\ calls[w].feedId = calls[c].feedId
         /\ Stored(w)
         /\ calls[w].resolvedAt.v < calls[c].now
         /\ calls[c].now - calls[w].resolvedAt.v < CacheTtlMs)
        => /\ calls[c].upstream = "none"
           /\ \E w2 \in DOMAIN calls : Stored(w2) /\ calls[c].result = calls[w2].result

StoredFor(f) == {w \in DOMAIN calls : Stored(w) /\ calls[w].feedId = f}

\* C18: the data and the timestamp of a cache entry are always those written
\* by one and the same fetch, a fetch than which none for the source
\* completed later; an entry is absent altogether before any fetch for the
\* source has stored; and a call served from the cache returns a feed that
\* one fetch stored.
CacheEntryWhole ==
    /\ \A f \in FeedIds :
          IF StoredFor(f) = {}
          THEN apiCache.data[f] = Undefined /\ apiCache.timestamp[f] = Undefined
          ELSE \E w \in StoredFor(f) :
                  /\ apiCache.data[f] = calls[w].result.value
                  /\ apiCache.timestamp[f] = Num(calls[w].now)
                  /\ \A w2 \in StoredFor(f) :
                        calls[w2].resolvedAt.v <= calls[w].resolvedAt.v
    /\ \A c \in DOMAIN calls :
          (calls[c].upstream = "none" /\ ~USE_MOCK_DATA) =>
              \E w \in StoredFor(calls[c].feedId) : calls[c].result = calls[w].result

\* C18 witness: two overlapping fetches for one source brought different
\* feeds, and the one that started first completed last
CacheEntryWholeWitness ==
    \E w1, w2 \in DOMAIN calls :
        /\ calls[w1].feedId = calls[w2].feedId
        /\ Stored(w1) /\ Stored(w2)
        /\ calls[w1].now < calls[w2].now
        /\ calls[w2].now < calls[w1].resolvedAt.v
        /\ calls[w1].resolvedAt.v > calls[w2].resolvedAt.v
        /\ calls[w1].result # calls[w2].result
        /\ apiCache.data[calls[w1].feedId] = calls[w1].result.value

\* C23: a fetchMtaFeed call issues at most one upstream request, none when
\* it is served from the cache; a call whose request failed has issued
\* exactly one and has returned the empty feed.
NoRetry ==
    \A i \in DOMAIN calls :
        /\ calls[i].requests <= 1
        /\ calls[i].upstream = "none" => calls[i].requests = 0
        /\ calls[i].upstream = "failed" =>
              /\ calls[i].requests = 1
              /\ IsDone(calls[i])
              /\ calls[i].result = Return(EmptyFeed(calls[i].now))

\* C23 witness: the request of a call failed, the call returned, and a later
\* call for the same source issued a request of its own
NoRetryWitness ==
    \E i, j \in DOMAIN calls :
        /\ i < j
        /\ calls[i].feedId = calls[j].feedId
        /\ calls[i].upstream = "failed"
        /\ calls[j].now > calls[i].now
        /\ calls[j].requests = 1

\* call w stored the empty feed that a payload which fails to decode yields
StoredDecodeFailure(w) ==
    /\ Stored(w)
    /\ calls[w].buffer = BadBytes
    /\ calls[w].result.value.entity = <<>>

\* C27: once a call has stored the empty feed of a payload that failed to
\* decode, every call for that source made within the following 30 seconds
\* returns that empty feed and issues no upstream request.
DecodeFailureCached ==
    \A w, c \in DOMAIN calls :
        (/\ StoredDecodeFailure(w)
         /\ calls[c].feedId = calls[w].feedId
         /\ calls[w].resolvedAt.v < calls[c].now
         /\ calls[c].now - calls[w].resolvedAt.v < CacheTtlMs)
        => /\ calls[c].upstream = "none"
           /\ calls[c].result = calls[w].result

\* C28: under every interleaving of overlapping fetchMtaFeed calls for one
\* source, a step that writes the cache entry of the source stores a
\* timestamp greater than or equal to the timestamp it replaces.
TimestampsNeverGoBack ==
    [][\A f \in FeedIds :
          (apiCache.timestamp[f] # Undefined /\ apiCache'.timestamp[f] # Undefined)
              => apiCache'.timestamp[f].v >= apiCache.timestamp[f].v]_vars

\* a step in which the request of a call is rejected
StepRejected ==
    \E i \in DOMAIN calls :
        /\ Len(calls') = Len(calls)
        /\ calls[i].upstream = "pending"
        /\ calls'[i].upstream = "failed"

\* a step in which a call is made and short-circuited by the offline flag
StepShortCircuited ==
    /\ USE_MOCK_DATA
    /\ Len(calls') = Len(calls) + 1
    /\ calls'[Len(calls')].upstream = "none"

\* C26: a step in which a fetchMtaFeed call ends in a transport error, or is
\* short-circuited by the offline flag, leaves the data and the timestamp of
\* every source in the cache as they were; and whatever the cache holds for
\* a source is a feed that a successful request stored, never the fallback
\* feed of a failed or short-circuited call.
FailureLeavesCache ==
    /\ [][(StepRejected \/ StepShortCircuited) => apiCache' = apiCache]_vars
    /\ [](\A f \in FeedIds :
            apiCache.data[f] # Undefined =>
                \E w \in StoredFor(f) :
                    /\ apiCache.data[f] = calls[w].result.value
                    /\ apiCache.timestamp[f] = Num(calls[w].now))

\* C26 witness: a call failed in transport while the cache held the entry
\* that an earlier call for the source had stored, and the entry is still
\* that one
FailureLeavesCacheWitness ==
    \E w, i \in DOMAIN calls :
        /\ Stored(w)
        /\ calls[i].feedId = calls[w].feedId
        /\ calls[i].upstream = "failed"
        /\ calls[i].now > calls[w].resolvedAt.v
        /\ calls[w].result.value.entity # <<>>
        /\ apiCache.data[calls[w].feedId] = calls[w].result.value
        /\ apiCache.timestamp[calls[w].feedId] = Num(calls[w].now)

\* C4: a call whose upstream request failed has returned the empty feed
\* stamped with the time of the call; it has not thrown.
TransportFailureAbsorbed ==
    \A i \in DOMAIN calls :
        calls[i].upstream = "failed" => calls[i].result = Return(EmptyFeed(calls[i].now))

\* C4 witness: a request failed some time after its call was made
TransportFailureWitness ==
    \E i \in DOMAIN calls :
        /\ calls[i].upstream = "failed"
        /\ clock > calls[i].now
        /\ calls[i].result.value.header.timestamp = SecondsOfMs(calls[i].now)

\* C5: with USE_MOCK_DATA set no call has issued an upstream request, every
\* fetchMtaFeed call has returned an empty feed, and the cache is empty.
OfflineNoUpstream ==
    USE_MOCK_DATA =>
        /\ \A i \in DOMAIN calls :
              /\ calls[i].upstream = "none"
              /\ calls[i].result = Return(EmptyFeed(calls[i].now))
        /\ apiCache = EmptyCache

\* C5 witness: offline, fetchMtaFeed was called twice for one source, the
\* second time later, and a getTrainArrivals call has returned arrivals
OfflineWitness ==
    /\ USE_MOCK_DATA
    /\ Len(calls) = 2
    /\ calls[1].feedId = calls[2].feedId
    /\ calls[1].now < calls[2].now
    /\ gta.pc = "returned"
    /\ gta.station # Undefined
    /\ Len(gta.result.arrivals) > 0

\* C6: every parseGtfsRealtimeFeed call has returned a feed; where the
\* protobuf decode raised, the feed has no entity and a timestamp made up
\* from the time of the parse.
DecoderNeverFails ==
    \A i \in DOMAIN calls :
        calls[i].buffer # Undefined =>
            LET parsed == parseGtfsRealtimeFeed(calls[i].buffer, calls[i].resolvedAt.v)
            IN  /\ parsed.kind = "return"
                /\ DOMAIN parsed.value = {"header", "entity"}
                /\ calls[i].result = parsed
                /\ FeedMessageDecode(calls[i].buffer).kind = "throw" =>
                      /\ parsed.value.entity = <<>>
                      /\ parsed.value.header.timestamp = SecondsOfMs(calls[i].resolvedAt.v)

\* C6 witness: a response that does not decode came in after the call was made
DecoderWitness ==
    \E i \in DOMAIN calls :
        /\ calls[i].buffer = BadBytes
        /\ calls[i].resolvedAt.v > calls[i].now
        /\ calls[i].result.value.entity = <<>>

-----------------------------------------------------------------------------
(* The database connection: connectToDatabase of lib/mongodb.js and the    *)
(* process-wide cached = global.mongoose.  A call runs to its await; the   *)
(* continuations of the calls that await a promise are queued, in the      *)
(* order of their awaits, when the promise settles, and run one after the  *)
(* other before the event loop starts the next task.                       *)

MaxConnects == 4

\* the promise of attempt k, and the mongoose instance it resolves to
Promise(k) == [t |-> "promise", id |-> k]
Mongoose(k) == [t |-> "mongoose", attempt |-> k]

\* a connectToDatabase call: where it stands, the promise it awaits (if
\* any), whether it started the attempt, what it returned
DbCaller(pc, promise, started, db) ==
    [pc |-> pc, promise |-> promise, started |-> started, db |-> db]

\* the calls that await promise k, in the order of their awaits
RECURSIVE Waiters(_, _, _)
Waiters(callers, k, i) ==
    IF i > Len(callers) THEN <<>>
    ELSE (IF callers[i].pc = "awaiting" /\ callers[i].promise = Promise(k)
              THEN <<i>> ELSE <<>>) \o Waiters(callers, k, i + 1)

\* a plausible slip: the catch block rethrows and leaves the promise cached
OnConnectError_KeepPromise(c) == c

\* lines 35-38: catch (e) { cached.promise = null; throw e; }
OnConnectError(c) == [c EXCEPT !.promise = Undefined]

\* lines 18-33: connectToDatabase up to its await.  A request handler calls
\* it from a task of the event loop, which starts when no continuation is
\* left to run.
ConnectCall ==
    /\ Len(dbCalls.callers) < MaxConnects
    /\ dbCalls.jobs = <<>>
    /\ IF Truthy(cached.conn)
       THEN /\ dbCalls' = [dbCalls EXCEPT !.callers =
                              Append(@, DbCaller("returned", Undefined, FALSE, cached.conn))]
            /\ UNCHANGED cached
       ELSE LET start == ~Truthy(cached.promise)
                k == Len(dbCalls.attempts) + 1
                promise == IF start THEN Promise(k) ELSE cached.promise
                c == Len(dbCalls.callers) + 1
                attempts == IF start THEN Append(dbCalls.attempts, "pending")
                            ELSE dbCalls.attempts
            IN  /\ cached' = [cached EXCEPT !.promise = promise]
                /\ dbCalls' = [attempts |-> attempts,
                               callers |-> Append(dbCalls.callers,
                                               DbCaller("awaiting", promise, start, Undefined)),
                               jobs |-> IF attempts[promise.id] = "pending"
                                        THEN dbCalls.jobs
                                        ELSE Append(dbCalls.jobs, c)]
    /\ UNCHANGED <<pureVars, clock, USE_MOCK_DATA, fetchVars, gta>>

\* mongoose.connect(...).then(...) settles: attempt k succeeds or fails, and
\* the continuations of the calls awaiting it are queued
ConnectSettle(k, ok) ==
    /\ dbCalls.attempts[k] = "pending"
    /\ dbCalls' = [dbCalls EXCEPT
                      !.attempts[k] = IF ok THEN "fulfilled" ELSE "rejected",
                      !.jobs = @ \o Waiters(dbCalls.callers, k, 1)]
    /\ UNCHANGED <<pureVars, clock, USE_MOCK_DATA, fetchVars, gta, cached>>

\* lines 34-40: the continuation of the call at the head of the queue
ConnectResume ==
    /\ dbCalls.jobs # <<>>
    /\ LET c == Head(dbCalls.jobs)
           k == dbCalls.callers[c].promise.id
       IN  IF dbCalls.attempts[k] = "fulfilled"
           THEN /\ cached' = [cached EXCEPT !.conn = Mongoose(k)]
                /\ dbCalls' = [dbCalls EXCEPT !.jobs = Tail(@),
                                              !.callers[c].pc = "returned",
                                              !.callers[c].db = Mongoose(k)]
           ELSE /\ cached' = OnConnectError(cached)
                /\ dbCalls' = [dbCalls EXCEPT !.jobs = Tail(@),
                                              !.callers[c].pc = "thrown"]
    /\ UNCHANGED <<pureVars, clock, USE_MOCK_DATA, fetchVars, gta>>

ConnectInit ==
    /\ Init
    /\ USE_MOCK_DATA = FALSE

ConnectNext ==
    \/ Tick
    \/ ConnectCall
    \/ \E k \in DOMAIN dbCalls.attempts, ok \in BOOLEAN : ConnectSettle(k, ok)
    \/ ConnectResume

\* SpecConnect: concurrent connectToDatabase calls against a database that
\* accepts or refuses each connection attempt
SpecConnect == ConnectInit /\ [][ConnectNext]_vars

InFlight == {k \in DOMAIN dbCalls.attempts : dbCalls.attempts[k] = "pending"}

\* every continuation queued at a settlement has run
Drained == dbCalls.jobs = <<>>

\* the last attempt made has failed and its waiters have been told
LastAttemptFailed ==
    /\ Drained
    /\ dbCalls.attempts # <<>>
    /\ dbCalls.attempts[Len(dbCalls.attempts)] = "rejected"

\* C30: at most one connection attempt is in flight at a time; a call that
\* waited on an attempt returns the connection of that attempt if it
\* succeeded and throws if it failed; no attempt is started after one has
\* succeeded; once the waiters of a failed attempt have run the cached
\* promise is null; and the call that follows a failed attempt starts a new
\* attempt.
SharedConnection ==
    /\ [](/\ Cardinality(InFlight) <= 1
          /\ \A c \in DOMAIN dbCalls.callers :
                LET call == dbCalls.callers[c]
                IN  /\ (call.pc = "returned" /\ call.promise # Undefined) =>
                           /\ dbCalls.attempts[call.promise.id] = "fulfilled"
                           /\ call.db = Mongoose(call.promise.id)
                    /\ call.pc = "thrown" =>
                           dbCalls.attempts[call.promise.id] = "rejected"
                    /\ (call.pc = "awaiting" /\ Drained) =>
                           dbCalls.attempts[call.promise.id] = "pending"
          /\ \A k \in DOMAIN dbCalls.attempts :
                dbCalls.attempts[k] = "fulfilled" => k = Len(dbCalls.attempts)
          /\ LastAttemptFailed => cached.promise = Undefined)
    /\ [][(LastAttemptFailed /\ Len(dbCalls'.callers) > Len(dbCalls.callers))
             => /\ Len(dbCalls'.attempts) = Len(dbCalls.attempts) + 1
                /\ dbCalls'.attempts[Len(dbCalls'.attempts)] = "pending"
                /\ dbCalls'.callers[Len(dbCalls'.callers)].started]_vars

\* C30 witness: two calls waited on one attempt, it failed and both threw;
\* the next call started a second attempt, which succeeded; a later call
\* returned the connection without waiting
SharedConnectionWitness ==
    /\ Len(dbCalls.callers) = 4
    /\ dbCalls.attempts = <<"rejected", "fulfilled">>
    /\ dbCalls.callers[1].pc = "thrown" /\ dbCalls.callers[1].started
    /\ dbCalls.callers[2].pc = "thrown" /\ ~dbCalls.callers[2].started
    /\ dbCalls.callers[2].promise = Promise(1)
    /\ dbCalls.callers[3].pc = "returned" /\ dbCalls.callers[3].started
    /\ dbCalls.callers[3].promise = Promise(2)
    /\ dbCalls.callers[4].pc = "returned" /\ dbCalls.callers[4].promise = Undefined
    /\ dbCalls.callers[4].db = Mongoose(2)

=============================================================================
